---- MODULE Spec2Model ----
(***************************************************************************)
(* dockerlogs: the streaming/selection engine of the TUI mode (src/tui.rs) *)
(* and the Watched-set engine of the dump mode (src/main.rs).              *)
(*                                                                         *)
(* Strings are sequences of one-character strings, so that strip_prefix,   *)
(* Regex::find and String::cmp are computed and not assumed.  Option<T> is *)
(* <<>> for None and <<x>> for Some(x).  Vec indices are 0-based as in the *)
(* source; the element at index i of a Vec v is v[i + 1].                  *)
(***************************************************************************)
EXTENDS Integers, Sequences, FiniteSets, TLC

VARIABLES
    app,            \* tui.rs: the AppState behind Arc<Mutex<..>>
    tasks,          \* the log tasks that are spawned and have not returned
    listed,         \* containers of list() for which no task is spawned yet
    watcher,        \* position of the code that reads the event stream
    starts,         \* runtime: container start events yielded so far
    delivered,      \* runtime: log chunks yielded so far
    follow,         \* main.rs: --follow
    watched,        \* main.rs: watched_containers, HashSet<String>
    color_counter,  \* main.rs: color_counter, Arc<Mutex<usize>>
    main,           \* position of main: in run_tui or in run_logs_mode
    terminal,       \* the modes of the terminal that run_tui switches
    lock,           \* tui.rs: the holder of the Mutex around the AppState
    ui,             \* tui.rs: position of the UI loop, the key it handles
    errors,         \* runtime: error items the event stream yielded so far
    frame,          \* tui.rs: what ui() is given and what it computes
    logs_mode       \* main.rs: the holders of the two mutexes of run_logs_mode
                    \* and the container_id its loop has at hand

vars == <<app, tasks, listed, watcher, starts, delivered, follow, watched,
          color_counter, main, terminal, lock, ui, errors, frame, logs_mode>>

dumpVars == <<follow, watched, color_counter>>

termVars == <<main, terminal>>

\* the variables that only the specifications of the lock, of the event
\* errors and of the renderer change
sideVars == <<lock, ui, errors, frame, logs_mode>>

----------------------------------------------------------------------------
(* Bounds of the model *)

\* max_logs of the AppState under check (last_n_lines * 10 in run_tui)
MaxLogs == 2

\* log chunks the runtime delivers in one run
MaxChunks == 3

\* container start events the event stream yields in one run
MaxStarts == 1

\* error items the event stream yields in one run
MaxErrors == 1

\* the widest right pane ui() is given
MaxWidth == 12

\* the longest log line ui() is given, in characters
MaxLineLen == 3

----------------------------------------------------------------------------
(* Strings *)

Str_web == <<"w", "e", "b">>
Str_db == <<"d", "b">>
Str_cache == <<"c", "a", "c", "h", "e">>
Str_app_api == <<"a", "p", "p", "-", "a", "p", "i">>
Str_app_db == <<"a", "p", "p", "-", "d", "b">>
Str_app_ == <<"a", "p", "p", "-">>

\* the characters the names use, in byte order ('-' < '/' < 'a' < ...)
Alphabet == <<"-", "/", "a", "b", "c", "d", "e", "h", "i", "p", "w">>

Ord(ch) == CHOOSE k \in 1..Len(Alphabet) : Alphabet[k] = ch

\* String::cmp: lexicographic on bytes; TRUE iff a <= b
RECURSIVE StrLe(_, _)
StrLe(a, b) ==
    IF a = <<>> THEN TRUE
    ELSE IF b = <<>> THEN FALSE
    ELSE IF Ord(Head(a)) < Ord(Head(b)) THEN TRUE
    ELSE IF Ord(Head(a)) > Ord(Head(b)) THEN FALSE
    ELSE StrLe(Tail(a), Tail(b))

starts_with(s, p) == Len(s) >= Len(p) /\ SubSeq(s, 1, Len(p)) = p

\* str::strip_prefix('/') with the else branch of its caller: the name
\* without one leading slash, or the name itself
strip_prefix(n) == IF starts_with(n, <<"/">>) THEN Tail(n) ELSE n

\* Regex::find(name).is_some() for a regex of the shape ^(p1|p2|...): a
\* set of literal prefixes anchored at the start
regex_find(regex, name) == \E p \in regex : starts_with(name, p)

----------------------------------------------------------------------------
(* AppState (src/tui.rs) *)

None == <<>>
Some(x) == <<x>>

\* the value a usize subtraction wraps to in a release build (a debug build
\* panics); it is larger than every index of the model
UsizeWrapped == 1000000

\* usize a - b
usize_sub(a, b) == IF a >= b THEN a - b ELSE UsizeWrapped

\* ContainerInfo
ContainerInfo(id, name, selected, color_index) ==
    [id |-> id, name |-> name, selected |-> selected, color_index |-> color_index]

\* AppState::new
AppState_new(max_logs) ==
    [containers |-> <<>>,
     list_state |-> None,
     logs |-> <<>>,
     max_logs |-> max_logs,
     container_logs |-> [n \in {} |-> <<>>],
     color_counter |-> 0,
     show_info |-> FALSE,
     info_text |-> <<>>,
     select_all_focused |-> TRUE]

\* format!("{} {}: {}", name, descriptor, line.trim()); the payload is the
\* number of the chunk in the runtime's delivery order
log_line(name, descriptor, text) ==
    [name |-> name, descriptor |-> descriptor, text |-> text]

\* push_back followed by pop_back when longer than max_logs: the newest
\* line is dropped, not the oldest
push_bounded_drop_newest(q, x, max_logs) ==
    IF Len(q) >= max_logs THEN q ELSE Append(q, x)

\* VecDeque::push_back followed by pop_front when longer than max_logs
push_bounded(q, x, max_logs) ==
    LET pushed == Append(q, x)
    IN IF Len(pushed) > max_logs THEN Tail(pushed) ELSE pushed

\* HashMap::get, <<>> when the key is absent
logs_of(container_logs, name) ==
    IF name \in DOMAIN container_logs THEN container_logs[name] ELSE <<>>

\* AppState::is_container_selected
is_container_selected(a, container_name) ==
    \E k \in 1..Len(a.containers) :
        a.containers[k].name = container_name /\ a.containers[k].selected

\* AppState::selected_count
selected_count(a) ==
    Cardinality({k \in 1..Len(a.containers) : a.containers[k].selected})

\* the concatenation, in list order, of the buffers of the selected entries
RECURSIVE all_logs_of(_, _)
all_logs_of(containers, container_logs) ==
    IF containers = <<>> THEN <<>>
    ELSE (IF Head(containers).selected
          THEN logs_of(container_logs, Head(containers).name)
          ELSE <<>>)
         \o all_logs_of(Tail(containers), container_logs)

\* update_displayed_logs without the cut to the last max_logs entries
update_displayed_logs_uncut(a) ==
    [a EXCEPT !.logs = all_logs_of(a.containers, a.container_logs)]

\* AppState::update_displayed_logs
update_displayed_logs(a) ==
    LET all_logs == all_logs_of(a.containers, a.container_logs)
        start == IF Len(all_logs) > a.max_logs
                 THEN Len(all_logs) - a.max_logs ELSE 0
    IN [a EXCEPT !.logs = SubSeq(all_logs, start + 1, Len(all_logs))]

\* add_log that appends to the merged buffer whatever the selection is
add_log_ignoring_selection(a, container_name, line) ==
    LET mine == push_bounded(logs_of(a.container_logs, container_name),
                             line, a.max_logs)
    IN [a EXCEPT
          !.container_logs =
              [n \in DOMAIN a.container_logs \cup {container_name} |->
                  IF n = container_name THEN mine ELSE a.container_logs[n]],
          !.logs = push_bounded(a.logs, line, a.max_logs)]

\* add_log that rebuilds the merged buffer instead of appending to it
add_log_rebuilding(a, container_name, line) ==
    LET mine == push_bounded(logs_of(a.container_logs, container_name),
                             line, a.max_logs)
    IN update_displayed_logs(
         [a EXCEPT !.container_logs =
             [n \in DOMAIN a.container_logs \cup {container_name} |->
                 IF n = container_name THEN mine ELSE a.container_logs[n]]])

\* add_log without the pop_front of the container's own buffer
add_log_unbounded(a, container_name, line) ==
    LET mine == Append(logs_of(a.container_logs, container_name), line)
    IN [a EXCEPT
          !.container_logs =
              [n \in DOMAIN a.container_logs \cup {container_name} |->
                  IF n = container_name THEN mine ELSE a.container_logs[n]],
          !.logs = IF is_container_selected(a, container_name)
                   THEN push_bounded(a.logs, line, a.max_logs)
                   ELSE a.logs]

\* AppState::add_log
add_log(a, container_name, line) ==
    LET mine == push_bounded(logs_of(a.container_logs, container_name),
                             line, a.max_logs)
        container_logs ==
            [n \in DOMAIN a.container_logs \cup {container_name} |->
                IF n = container_name THEN mine ELSE a.container_logs[n]]
    IN [a EXCEPT
          !.container_logs = container_logs,
          !.logs = IF is_container_selected(a, container_name)
                   THEN push_bounded(a.logs, line, a.max_logs)
                   ELSE a.logs]

\* select_all that appends the rebuild to the merged buffer it finds
select_all_appending(a) ==
    LET flagged == [a EXCEPT !.containers =
                       [k \in 1..Len(a.containers) |->
                           [a.containers[k] EXCEPT !.selected = TRUE]]]
    IN update_displayed_logs_uncut(
          [flagged EXCEPT !.container_logs =
              [n \in DOMAIN a.container_logs |-> a.logs \o a.container_logs[n]]])

\* AppState::select_all
select_all(a) ==
    update_displayed_logs(
        [a EXCEPT !.containers =
            [k \in 1..Len(a.containers) |->
                [a.containers[k] EXCEPT !.selected = TRUE]]])

\* AppState::deselect_all
deselect_all(a) ==
    update_displayed_logs(
        [a EXCEPT !.containers =
            [k \in 1..Len(a.containers) |->
                [a.containers[k] EXCEPT !.selected = FALSE]]])

\* toggle_selected that, with ALL focused, flips every row
toggle_selected_inverting(a) ==
    IF a.select_all_focused
    THEN update_displayed_logs(
            [a EXCEPT !.containers =
                [k \in 1..Len(a.containers) |->
                    [a.containers[k] EXCEPT !.selected = ~a.containers[k].selected]]])
    ELSE IF a.list_state # None /\ a.list_state[1] < Len(a.containers)
    THEN update_displayed_logs(
            [a EXCEPT !.containers[a.list_state[1] + 1].selected =
                          ~a.containers[a.list_state[1] + 1].selected])
    ELSE a

\* toggle_selected without the rebuild after a row is flipped
toggle_selected_stale(a) ==
    IF a.select_all_focused
    THEN IF \A k \in 1..Len(a.containers) : a.containers[k].selected
         THEN deselect_all(a)
         ELSE select_all(a)
    ELSE IF a.list_state # None /\ a.list_state[1] < Len(a.containers)
    THEN [a EXCEPT !.containers[a.list_state[1] + 1].selected =
                       ~a.containers[a.list_state[1] + 1].selected]
    ELSE a

\* AppState::toggle_selected
toggle_selected(a) ==
    IF a.select_all_focused
    THEN IF \A k \in 1..Len(a.containers) : a.containers[k].selected
         THEN deselect_all(a)
         ELSE select_all(a)
    ELSE IF a.list_state # None /\ a.list_state[1] < Len(a.containers)
    THEN update_displayed_logs(
            [a EXCEPT !.containers[a.list_state[1] + 1].selected =
                          ~a.containers[a.list_state[1] + 1].selected])
    ELSE a

\* AppState::next
next(a) ==
    IF a.select_all_focused
    THEN [a EXCEPT !.select_all_focused = FALSE,
                   !.list_state = IF a.containers # <<>> THEN Some(0) ELSE @]
    ELSE IF a.list_state = None
    THEN [a EXCEPT !.select_all_focused = TRUE]
    ELSE IF a.list_state[1] >= usize_sub(Len(a.containers), 1)
    THEN [a EXCEPT !.select_all_focused = TRUE, !.list_state = None]
    ELSE [a EXCEPT !.list_state = Some(a.list_state[1] + 1)]

\* AppState::previous
previous(a) ==
    IF a.select_all_focused
    THEN IF a.containers # <<>>
         THEN [a EXCEPT !.select_all_focused = FALSE,
                        !.list_state = Some(usize_sub(Len(a.containers), 1))]
         ELSE a
    ELSE IF a.list_state = None
    THEN [a EXCEPT !.select_all_focused = TRUE]
    ELSE IF a.list_state[1] = 0
    THEN [a EXCEPT !.select_all_focused = TRUE, !.list_state = None]
    ELSE [a EXCEPT !.list_state = Some(a.list_state[1] - 1)]

\* no sort after the push
sort_by_name_skipped(v) == v

\* Vec::sort_by(|a, b| a.name.cmp(&b.name)): a stable sort by name
RECURSIVE sort_by_name(_)
sort_by_name(v) ==
    IF v = <<>> THEN <<>>
    ELSE LET rest == sort_by_name(SubSeq(v, 1, Len(v) - 1))
             x == v[Len(v)]
             k == Cardinality({j \in 1..Len(rest) : StrLe(rest[j].name, x.name)})
         IN SubSeq(rest, 1, k) \o <<x>> \o SubSeq(rest, k + 1, Len(rest))

\* add_container that takes the position in the list as the color index
add_container_reusing(a, id, name) ==
    IF \E k \in 1..Len(a.containers) : a.containers[k].id = id
    THEN a
    ELSE LET pushed == Append(a.containers,
                              ContainerInfo(id, name, TRUE, Len(a.containers)))
         IN update_displayed_logs(
              [a EXCEPT !.color_counter = a.color_counter + 1,
                        !.containers = sort_by_name(pushed),
                        !.list_state = IF Len(pushed) = 1 THEN Some(0) ELSE @])

\* add_container without the test of line 238
add_container_unchecked(a, id, name) ==
    LET pushed == Append(a.containers,
                         ContainerInfo(id, name, TRUE, a.color_counter))
    IN update_displayed_logs(
         [a EXCEPT !.color_counter = a.color_counter + 1,
                   !.containers = sort_by_name(pushed),
                   !.list_state = IF Len(pushed) = 1 THEN Some(0) ELSE @])

\* AppState::add_container
add_container(a, id, name) ==
    IF \E k \in 1..Len(a.containers) : a.containers[k].id = id
    THEN a
    ELSE LET pushed == Append(a.containers,
                              ContainerInfo(id, name, TRUE, a.color_counter))
         IN update_displayed_logs(
              [a EXCEPT !.color_counter = a.color_counter + 1,
                        !.containers = sort_by_name(pushed),
                        !.list_state = IF Len(pushed) = 1 THEN Some(0) ELSE @])

\* Vec::retain(|c| c.id != id)
retain_other(containers, id) == SelectSeq(containers, LAMBDA c : c.id # id)

\* remove_container, lines 272-290, without the auto-selection
reselect_skipped(a, name) ==
    [a EXCEPT !.container_logs =
        [n \in DOMAIN a.container_logs \ {name} |-> a.container_logs[n]]]

\* remove_container, lines 272-290: the smart auto-selection and the clean-up
\* of the removed container's buffer
reselect(a, name) ==
    LET same_name_exists ==
            \E k \in 1..Len(a.containers) : a.containers[k].name = name
        chosen ==
            IF same_name_exists
            THEN [a EXCEPT !.containers =
                    [k \in 1..Len(a.containers) |->
                        IF a.containers[k].name = name
                        THEN [a.containers[k] EXCEPT !.selected = TRUE]
                        ELSE a.containers[k]]]
            ELSE IF a.containers # <<>> THEN select_all(a) ELSE a
    IN [chosen EXCEPT !.container_logs =
          [n \in DOMAIN chosen.container_logs \ {name} |-> chosen.container_logs[n]]]

\* the adjustment without the clamp of lines 295-298
adjust_selection_unclamped(a) ==
    IF a.containers = <<>> THEN [a EXCEPT !.list_state = None] ELSE a

\* remove_container, lines 292-299: the adjustment of the focused index
adjust_selection(a) ==
    IF a.containers = <<>>
    THEN [a EXCEPT !.list_state = None]
    ELSE IF a.list_state # None /\ a.list_state[1] >= Len(a.containers)
    THEN [a EXCEPT !.list_state = Some(usize_sub(Len(a.containers), 1))]
    ELSE a

\* remove_container without the rebuild of line 301
remove_container_stale(a, id) ==
    LET found == {k \in 1..Len(a.containers) : a.containers[k].id = id}
        retained == [a EXCEPT !.containers = retain_other(a.containers, id)]
    IN adjust_selection(
          IF found = {} THEN retained
          ELSE reselect(retained,
                        a.containers[CHOOSE k \in found :
                                        \A j \in found : k <= j].name))

\* AppState::remove_container
remove_container(a, id) ==
    LET found == {k \in 1..Len(a.containers) : a.containers[k].id = id}
        removed_name ==
            IF found = {} THEN None
            ELSE Some(a.containers[CHOOSE k \in found :
                                      \A j \in found : k <= j].name)
        retained == [a EXCEPT !.containers = retain_other(a.containers, id)]
        reselected == IF removed_name = None THEN retained
                      ELSE reselect(retained, removed_name[1])
    IN update_displayed_logs(adjust_selection(reselected))

----------------------------------------------------------------------------
(* The container runtime (docker_api), as the program sees it *)

\* the containers of the TUI scenario: c3 is a second container named web
TuiIds == {"c1", "c2", "c3"}

\* the containers of the dump scenario
DumpIds == {"d1", "d2", "d3"}

\* info.name of ContainerInspect
inspect_name(id) ==
    CASE id = "c1" -> <<"/">> \o Str_web
      [] id = "c2" -> <<"/">> \o Str_db
      [] id = "c3" -> <<"/">> \o Str_web
      [] id = "d1" -> <<"/">> \o Str_app_api
      [] id = "d2" -> <<"/">> \o Str_app_db
      [] id = "d3" -> <<"/">> \o Str_cache

\* -c .* (the default) in the TUI scenario, -c ^app- in the dump scenario
TuiRegex == {<<>>}
DumpRegex == {Str_app_}

\* the TtyChunk variant of the k-th chunk the runtime delivers, and the
\* descriptor the match gives each variant
chunk_of(k) == IF k % 3 = 1 THEN "StdOut" ELSE IF k % 3 = 2 THEN "StdErr" ELSE "StdIn"
descriptor_of(chunk) ==
    CASE chunk = "StdIn" -> "i"
      [] chunk = "StdOut" -> "o"
      [] chunk = "StdErr" -> "e"

\* items of the event stream
StartEvent(id) == [ok |-> TRUE, type_ |-> "container", action |-> "start", actor |-> Some(id)]
OtherEvents ==
    {[ok |-> FALSE, type_ |-> "", action |-> "", actor |-> None],
     [ok |-> TRUE, type_ |-> "container", action |-> "die", actor |-> Some("c1")],
     [ok |-> TRUE, type_ |-> "network", action |-> "start", actor |-> Some("c1")],
     [ok |-> TRUE, type_ |-> "container", action |-> "start", actor |-> None]}

----------------------------------------------------------------------------
(* The log tasks and the runtime's streams *)

\* a spawned log task: log_container (tui.rs) or the future of lines
\* 210-226 and 269-285 (main.rs)
LogTask(id, pc) ==
    [id |-> id, pc |-> pc, name |-> <<>>, color_index |-> 0, eof |-> FALSE]

\* the task has returned: tokio drops it
RemoveAt(seq, t) == SubSeq(seq, 1, t - 1) \o SubSeq(seq, t + 1, Len(seq))

\* inspect and the name without the filter
name_after_inspect_unfiltered(regex, id, outcome) ==
    IF outcome = "err" THEN None
    ELSE IF outcome = "noname" THEN None
    ELSE Some(strip_prefix(inspect_name(id)))

\* log_container, lines 720-741, and start_logging_container, lines 60-87:
\* inspect fails, or reports no name, or reports the container's name, which
\* the filter accepts or not
name_after_inspect(regex, id, outcome) ==
    IF outcome = "err" THEN None
    ELSE IF outcome = "noname" THEN None
    ELSE LET name == strip_prefix(inspect_name(id))
         IN IF regex_find(regex, name) THEN Some(name) ELSE None

\* a log stream of the container is open and has not been ended by a stop
followed(id) ==
    \E t \in 1..Len(tasks) :
        tasks[t].id = id /\ tasks[t].pc = "stream" /\ ~tasks[t].eof

\* what the event stream can yield next: the start event of a container
\* that is not running, an error, or an event that is no container start
EventItems(ids) ==
    {StartEvent(id) : id \in {i \in ids : ~followed(i)}} \cup OtherEvents

\* the condition of lines 830-834 (tui.rs) and 246-253 (main.rs): the id a
\* container start event carries, None for every other item
started_id(event) ==
    IF event.ok /\ event.type_ = "container" /\ event.action = "start"
    THEN event.actor
    ELSE None

\* a container that a log stream follows stops: the streams on it end
RuntimeStop(id) ==
    /\ followed(id)
    /\ tasks' = [t \in 1..Len(tasks) |->
                    IF tasks[t].id = id /\ tasks[t].pc = "stream"
                    THEN [tasks[t] EXCEPT !.eof = TRUE] ELSE tasks[t]]
    /\ UNCHANGED <<app, listed, watcher, starts, delivered>>
    /\ UNCHANGED dumpVars
    /\ UNCHANGED termVars
    /\ UNCHANGED sideVars

----------------------------------------------------------------------------
(* TUI mode: run_tui and log_container (src/tui.rs) *)

\* run_tui, lines 805-818: one task per listed container that has an id
SpawnListed ==
    /\ listed # <<>>
    /\ listed' = Tail(listed)
    /\ tasks' = IF Head(listed) = None THEN tasks
                ELSE Append(tasks, LogTask(Head(listed)[1], "inspect"))
    /\ UNCHANGED <<app, watcher, starts, delivered>>
    /\ UNCHANGED dumpVars
    /\ UNCHANGED termVars
    /\ UNCHANGED sideVars

\* log_container, lines 720-757: inspect, return early or add_container
\* under the lock, then open the log stream (follow = true)
AddContainer(t, outcome) ==
    /\ tasks[t].pc = "inspect"
    /\ LET n == name_after_inspect(TuiRegex, tasks[t].id, outcome)
       IN IF n = None
          THEN /\ tasks' = RemoveAt(tasks, t)
               /\ app' = app
          ELSE /\ tasks' = [tasks EXCEPT ![t].pc = "stream", ![t].name = n[1]]
               /\ app' = add_container(app, tasks[t].id, n[1])
    /\ UNCHANGED <<listed, watcher, starts, delivered>>
    /\ UNCHANGED dumpVars
    /\ UNCHANGED termVars
    /\ UNCHANGED sideVars

\* log_container, lines 758-775: one Ok chunk, add_log under the lock
RecvChunk(t) ==
    /\ tasks[t].pc = "stream"
    /\ delivered < MaxChunks
    /\ delivered' = delivered + 1
    /\ app' = add_log(app, tasks[t].name,
                      log_line(tasks[t].name,
                               descriptor_of(chunk_of(delivered + 1)),
                               delivered + 1))
    /\ UNCHANGED <<tasks, listed, watcher, starts>>
    /\ UNCHANGED dumpVars
    /\ UNCHANGED termVars
    /\ UNCHANGED sideVars

\* log_container, lines 758 and 776-785: the stream ends (the container has
\* stopped) or yields an error; remove_container under the lock
RemoveContainer(t, item) ==
    /\ tasks[t].pc = "stream"
    /\ item = "end" => tasks[t].eof
    /\ app' = remove_container(app, tasks[t].id)
    /\ tasks' = RemoveAt(tasks, t)
    /\ UNCHANGED <<listed, watcher, starts, delivered>>
    /\ UNCHANGED dumpVars
    /\ UNCHANGED termVars
    /\ UNCHANGED sideVars

\* run_tui, lines 821-845: the event monitoring task, spawned after the
\* listed containers, reads one item of the event stream
WatchEvent(event) ==
    /\ listed = <<>>
    /\ watcher = "watching"
    /\ LET id == started_id(event)
       IN IF id = None
          THEN UNCHANGED <<tasks, starts>>
          ELSE /\ starts < MaxStarts
               /\ starts' = starts + 1
               /\ tasks' = Append(tasks, LogTask(id[1], "inspect"))
    /\ UNCHANGED <<app, listed, watcher, delivered>>
    /\ UNCHANGED dumpVars
    /\ UNCHANGED termVars
    /\ UNCHANGED sideVars

\* run_tui, line 829: the event stream ends and the task returns
WatchEnd ==
    /\ listed = <<>>
    /\ watcher = "watching"
    /\ watcher' = "ended"
    /\ UNCHANGED <<app, tasks, listed, starts, delivered>>
    /\ UNCHANGED dumpVars
    /\ UNCHANGED termVars
    /\ UNCHANGED sideVars

\* run_tui, lines 864-888: the keys that call one AppState method under the
\* lock; the UI loop starts after the tasks of the listed containers are
\* spawned

\* Down or j
KeyDown ==
    /\ listed = <<>>
    /\ app' = next(app)
    /\ UNCHANGED <<tasks, listed, watcher, starts, delivered>>
    /\ UNCHANGED dumpVars
    /\ UNCHANGED termVars
    /\ UNCHANGED sideVars

\* Up or k
KeyUp ==
    /\ listed = <<>>
    /\ app' = previous(app)
    /\ UNCHANGED <<tasks, listed, watcher, starts, delivered>>
    /\ UNCHANGED dumpVars
    /\ UNCHANGED termVars
    /\ UNCHANGED sideVars

\* Space or Enter
KeyToggle ==
    /\ listed = <<>>
    /\ app' = toggle_selected(app)
    /\ UNCHANGED <<tasks, listed, watcher, starts, delivered>>
    /\ UNCHANGED dumpVars
    /\ UNCHANGED termVars
    /\ UNCHANGED sideVars

\* a
KeySelectAll ==
    /\ listed = <<>>
    /\ app' = select_all(app)
    /\ UNCHANGED <<tasks, listed, watcher, starts, delivered>>
    /\ UNCHANGED dumpVars
    /\ UNCHANGED termVars
    /\ UNCHANGED sideVars

\* n
KeyDeselectAll ==
    /\ listed = <<>>
    /\ app' = deselect_all(app)
    /\ UNCHANGED <<tasks, listed, watcher, starts, delivered>>
    /\ UNCHANGED dumpVars
    /\ UNCHANGED termVars
    /\ UNCHANGED sideVars

\* the UI loop of lines 850-918: where it is, the key it has read, and for
\* the key i the id it inspects and the text that get_container_info gave
UiLoop(pc, key) == [pc |-> pc, key |-> key, fetch_id |-> None, info |-> <<>>]

\* ui() has not been called
NoFrame == [width |-> 0, line |-> <<>>, out |-> None]

\* run_logs_mode: nobody holds watched_containers or color_counter, and the
\* loop has no container_id at hand
NoGuards == [watched |-> None, counter |-> None, container_id |-> None]

----------------------------------------------------------------------------
(* The terminal: run_tui, lines 792-797 and 920-927 *)

\* the terminal as the shell hands it over
TerminalUntouched ==
    [raw_mode |-> FALSE, alternate_screen |-> FALSE, mouse_capture |-> FALSE]

\* the terminal after lines 793-795
TerminalSetUp ==
    [raw_mode |-> TRUE, alternate_screen |-> TRUE, mouse_capture |-> TRUE]

\* enable_raw_mode, disable_raw_mode
set_raw_mode(term, on) == [term EXCEPT !.raw_mode = on]

\* execute! with EnterAlternateScreen, EnableMouseCapture, or with
\* LeaveAlternateScreen, DisableMouseCapture
set_screen(term, on) ==
    [term EXCEPT !.alternate_screen = on, !.mouse_capture = on]

----------------------------------------------------------------------------
(* The TUI specification.  The key i (the info overlay) writes only      *)
(* show_info and info_text, which no action below reads.  The end of the *)
(* event stream only disables WatchEvent: SpecWatch adds it, and every   *)
(* state of SpecWatch is, but for watcher, a state of Spec.              *)

Init ==
    /\ app = AppState_new(MaxLogs)
    /\ tasks = <<>>
    /\ listed = <<None, Some("c1")>>
    /\ watcher = "watching"
    /\ starts = 0
    /\ delivered = 0
    /\ follow = TRUE
    /\ watched = {}
    /\ color_counter = 0
    /\ main = "running"
    /\ terminal = TerminalSetUp
    /\ lock = None
    /\ ui = UiLoop("lock_draw", None)
    /\ errors = 0
    /\ frame = NoFrame
    /\ logs_mode = NoGuards

Next ==
    \/ SpawnListed
    \/ \E t \in 1..Len(tasks) : \E outcome \in {"ok", "err", "noname"} : AddContainer(t, outcome)
    \/ \E t \in 1..Len(tasks) : RecvChunk(t)
    \/ \E t \in 1..Len(tasks) : \E item \in {"end", "err"} : RemoveContainer(t, item)
    \/ \E event \in EventItems(TuiIds) : WatchEvent(event)
    \/ KeyDown
    \/ KeyUp
    \/ KeyToggle
    \/ KeySelectAll
    \/ KeyDeselectAll
    \/ \E id \in TuiIds : RuntimeStop(id)

Spec == Init /\ [][Next]_vars

NextWatch == Next \/ WatchEnd

SpecWatch == Init /\ [][NextWatch]_vars

----------------------------------------------------------------------------
(* Dump mode: run_logs_mode and start_logging_container (src/main.rs) *)

\* no check of the Watched set before the spawn
check_and_insert_always(w, id) == TRUE

\* run_logs_mode, lines 195-201 and 255-261: the check and the insertion
\* under one acquisition of the lock; TRUE iff a task is to be spawned
check_and_insert(w, id) == id \notin w

\* run_logs_mode, lines 189-228: the next listed container
DumpSpawnListed ==
    /\ watcher = "list"
    /\ listed # <<>>
    /\ listed' = Tail(listed)
    /\ IF Head(listed) # None /\ check_and_insert(watched, Head(listed)[1])
       THEN /\ watched' = watched \cup {Head(listed)[1]}
            /\ tasks' = Append(tasks, LogTask(Head(listed)[1], "color"))
       ELSE UNCHANGED <<watched, tasks>>
    /\ UNCHANGED <<app, watcher, starts, delivered, follow, color_counter>>
    /\ UNCHANGED termVars
    /\ UNCHANGED sideVars

\* run_logs_mode, lines 230-242: without --follow wait for the tasks and
\* return; with it, subscribe to the event stream
DumpListed ==
    /\ watcher = "list"
    /\ listed = <<>>
    /\ watcher' = IF follow THEN "watching" ELSE "join"
    /\ UNCHANGED <<app, tasks, listed, starts, delivered>>
    /\ UNCHANGED dumpVars
    /\ UNCHANGED termVars
    /\ UNCHANGED sideVars

\* run_logs_mode, lines 231-235: every task has returned
DumpJoined ==
    /\ watcher = "join"
    /\ tasks = <<>>
    /\ watcher' = "exit"
    /\ UNCHANGED <<app, tasks, listed, starts, delivered>>
    /\ UNCHANGED dumpVars
    /\ UNCHANGED termVars
    /\ UNCHANGED sideVars

\* run_logs_mode, lines 244-293: one item of the event stream
DumpWatchEvent(event) ==
    /\ watcher = "watching"
    /\ LET id == started_id(event)
       IN IF id = None
          THEN UNCHANGED <<tasks, starts, watched>>
          ELSE /\ starts < MaxStarts
               /\ starts' = starts + 1
               /\ IF check_and_insert(watched, id[1])
                  THEN /\ watched' = watched \cup {id[1]}
                       /\ tasks' = Append(tasks, LogTask(id[1], "color"))
                  ELSE UNCHANGED <<watched, tasks>>
    /\ UNCHANGED <<app, listed, watcher, delivered, follow, color_counter>>
    /\ UNCHANGED termVars
    /\ UNCHANGED sideVars

\* run_logs_mode, lines 244 and 295: the event stream ends, main returns
\* and the process exits with its tasks
DumpWatchEnd ==
    /\ watcher = "watching"
    /\ watcher' = "exit"
    /\ UNCHANGED <<app, tasks, listed, starts, delivered>>
    /\ UNCHANGED dumpVars
    /\ UNCHANGED termVars
    /\ UNCHANGED sideVars

\* lines 211-214 and 270-273: the task takes its color index under the
\* lock of the counter
TakeColor(t) ==
    /\ watcher # "exit"
    /\ tasks[t].pc = "color"
    /\ tasks' = [tasks EXCEPT ![t].pc = "inspect", ![t].color_index = color_counter]
    /\ color_counter' = color_counter + 1
    /\ UNCHANGED <<app, listed, watcher, starts, delivered, follow, watched>>
    /\ UNCHANGED termVars
    /\ UNCHANGED sideVars

\* an early return that leaves the id in the Watched set
exit_early_leaking(w, id) == w

\* start_logging_container, lines 60-91: inspect, the name and the filter;
\* every early return removes the id from the Watched set
exit_early(w, id) == w \ {id}

DumpInspect(t, outcome) ==
    /\ watcher # "exit"
    /\ tasks[t].pc = "inspect"
    /\ LET n == name_after_inspect(DumpRegex, tasks[t].id, outcome)
       IN IF n = None
          THEN /\ watched' = exit_early(watched, tasks[t].id)
               /\ tasks' = RemoveAt(tasks, t)
          ELSE /\ watched' = watched
               /\ tasks' = [tasks EXCEPT ![t].pc = "stream", ![t].name = n[1]]
    /\ UNCHANGED <<app, listed, watcher, starts, delivered, follow, color_counter>>
    /\ UNCHANGED termVars
    /\ UNCHANGED sideVars

\* start_logging_container, lines 92-119: one Ok chunk is printed
DumpRecvChunk(t) ==
    /\ watcher # "exit"
    /\ tasks[t].pc = "stream"
    /\ delivered < MaxChunks
    /\ delivered' = delivered + 1
    /\ UNCHANGED <<app, tasks, listed, watcher, starts>>
    /\ UNCHANGED dumpVars
    /\ UNCHANGED termVars
    /\ UNCHANGED sideVars

\* start_logging_container, lines 92 and 120-122: the stream ends (the
\* container has stopped, or --follow is off and the tail is read) or
\* yields an error
DumpStreamEnd(t, item) ==
    /\ watcher # "exit"
    /\ tasks[t].pc = "stream"
    /\ item = "end" => (tasks[t].eof \/ ~follow)
    /\ tasks' = [tasks EXCEPT ![t].pc = "stopped"]
    /\ UNCHANGED <<app, listed, watcher, starts, delivered>>
    /\ UNCHANGED dumpVars
    /\ UNCHANGED termVars
    /\ UNCHANGED sideVars

\* start_logging_container, lines 126-131: the stopped notice, then the id
\* is removed from the Watched set under the lock
DumpStopped(t) ==
    /\ watcher # "exit"
    /\ tasks[t].pc = "stopped"
    /\ watched' = watched \ {tasks[t].id}
    /\ tasks' = RemoveAt(tasks, t)
    /\ UNCHANGED <<app, listed, watcher, starts, delivered, follow, color_counter>>
    /\ UNCHANGED termVars
    /\ UNCHANGED sideVars

DumpInit ==
    /\ app = AppState_new(MaxLogs)
    /\ tasks = <<>>
    /\ listed = <<Some("d1"), None, Some("d2"), Some("d3")>>
    /\ watcher = "list"
    /\ starts = 0
    /\ delivered = 0
    /\ follow \in BOOLEAN
    /\ watched = {}
    /\ color_counter = 0
    /\ main = "run_logs_mode"
    /\ terminal = TerminalUntouched
    /\ lock = None
    /\ ui = UiLoop("lock_draw", None)
    /\ errors = 0
    /\ frame = NoFrame
    /\ logs_mode = NoGuards

DumpNext ==
    \/ DumpSpawnListed
    \/ DumpListed
    \/ DumpJoined
    \/ \E event \in EventItems(DumpIds) : DumpWatchEvent(event)
    \/ DumpWatchEnd
    \/ \E t \in 1..Len(tasks) : TakeColor(t)
    \/ \E t \in 1..Len(tasks) : \E outcome \in {"ok", "err", "noname"} : DumpInspect(t, outcome)
    \/ \E t \in 1..Len(tasks) : DumpRecvChunk(t)
    \/ \E t \in 1..Len(tasks) : \E item \in {"end", "err"} : DumpStreamEnd(t, item)
    \/ \E t \in 1..Len(tasks) : DumpStopped(t)
    \/ \E id \in DumpIds : watcher # "exit" /\ RuntimeStop(id)

DumpSpec == DumpInit /\ [][DumpNext]_vars

----------------------------------------------------------------------------
(* The program from main on: run_tui with the set-up and the restore of    *)
(* the terminal, or run_logs_mode.  In run_tui, main is at one of          *)
(* "enable_raw_mode", "execute", "Terminal_new", "Regex_new", "list": the  *)
(* call it makes next; "running": lines 805-918; "setup_failed": returned  *)
(* from a ? of lines 793-797; "returned": returned after them.             *)

\* run_tui, line 793: enable_raw_mode()?
EnableRawMode(ok) ==
    /\ main = "enable_raw_mode"
    /\ terminal' = IF ok THEN set_raw_mode(terminal, TRUE) ELSE terminal
    /\ main' = IF ok THEN "execute" ELSE "setup_failed"
    /\ UNCHANGED <<app, tasks, listed, watcher, starts, delivered>>
    /\ UNCHANGED dumpVars
    /\ UNCHANGED sideVars

\* run_tui, lines 794-795: execute!(stdout, EnterAlternateScreen,
\* EnableMouseCapture)?
EnterScreen(ok) ==
    /\ main = "execute"
    /\ terminal' = IF ok THEN set_screen(terminal, TRUE) ELSE terminal
    /\ main' = IF ok THEN "Terminal_new" ELSE "setup_failed"
    /\ UNCHANGED <<app, tasks, listed, watcher, starts, delivered>>
    /\ UNCHANGED dumpVars
    /\ UNCHANGED sideVars

\* run_tui, lines 796-797: Terminal::new(backend)?
NewTerminal(ok) ==
    /\ main = "Terminal_new"
    /\ main' = IF ok THEN "Regex_new" ELSE "setup_failed"
    /\ UNCHANGED <<app, tasks, listed, watcher, starts, delivered, terminal>>
    /\ UNCHANGED dumpVars
    /\ UNCHANGED sideVars

\* run_tui, lines 799-801: AppState::new, then Regex::new(..)?, which
\* fails on an invalid filter regex
CompileRegex(ok) ==
    /\ main = "Regex_new"
    /\ app' = AppState_new(MaxLogs)
    /\ main' = IF ok THEN "list" ELSE "returned"
    /\ UNCHANGED <<tasks, listed, watcher, starts, delivered, terminal>>
    /\ UNCHANGED dumpVars
    /\ UNCHANGED sideVars

\* run_tui, line 804: docker.containers().list(..).await?
ListContainers(ok) ==
    /\ main = "list"
    /\ listed' = IF ok THEN <<None, Some("c1")>> ELSE listed
    /\ main' = IF ok THEN "running" ELSE "returned"
    /\ UNCHANGED <<app, tasks, watcher, starts, delivered, terminal>>
    /\ UNCHANGED dumpVars
    /\ UNCHANGED sideVars

\* the terminal after lines 921-927, for the first call of the three that
\* fails, if any
restore_terminal(term, failed) ==
    IF failed = "disable_raw_mode" THEN term
    ELSE IF failed = "execute" THEN set_raw_mode(term, FALSE)
    ELSE set_screen(set_raw_mode(term, FALSE), FALSE)

\* run_tui, lines 863 and 920-934: q or Esc leaves the loop; the terminal
\* is restored by three calls, each with a ?; run_tui returns, main returns
\* and the runtime drops the tasks
KeyQuit(failed) ==
    /\ main = "running"
    /\ listed = <<>>
    /\ terminal' = restore_terminal(terminal, failed)
    /\ main' = "returned"
    /\ tasks' = <<>>
    /\ UNCHANGED <<app, listed, watcher, starts, delivered>>
    /\ UNCHANGED dumpVars
    /\ UNCHANGED sideVars

\* run_tui, lines 856, 860, 861 and 931-934: terminal.draw, event::poll or
\* event::read fails; the ? returns from the closure of the UI loop, past
\* lines 920-927
TerminalError ==
    /\ main = "running"
    /\ listed = <<>>
    /\ main' = "returned"
    /\ tasks' = <<>>
    /\ UNCHANGED <<app, listed, watcher, starts, delivered, terminal>>
    /\ UNCHANGED dumpVars
    /\ UNCHANGED sideVars

\* main, lines 137-140: the tui subcommand
TuiInit ==
    /\ app = AppState_new(MaxLogs)
    /\ tasks = <<>>
    /\ listed = <<>>
    /\ watcher = "watching"
    /\ starts = 0
    /\ delivered = 0
    /\ follow = TRUE
    /\ watched = {}
    /\ color_counter = 0
    /\ main = "enable_raw_mode"
    /\ terminal = TerminalUntouched
    /\ lock = None
    /\ ui = UiLoop("lock_draw", None)
    /\ errors = 0
    /\ frame = NoFrame
    /\ logs_mode = NoGuards

MainInit == TuiInit \/ DumpInit

MainNext ==
    \/ \E ok \in BOOLEAN : EnableRawMode(ok)
    \/ \E ok \in BOOLEAN : EnterScreen(ok)
    \/ \E ok \in BOOLEAN : NewTerminal(ok)
    \/ \E ok \in BOOLEAN : CompileRegex(ok)
    \/ \E ok \in BOOLEAN : ListContainers(ok)
    \/ main = "running" /\ Next
    \/ \E failed \in {"none", "disable_raw_mode", "execute", "show_cursor"} : KeyQuit(failed)
    \/ TerminalError
    \/ main = "run_logs_mode" /\ DumpNext

MainSpec == MainInit /\ [][MainNext]_vars

----------------------------------------------------------------------------
(* The lock of the App State (tokio::sync::Mutex), in TUI mode.  Every      *)
(* lock().await is a request and a grant; the guard is dropped at the end  *)
(* of its block or by drop().  A log task is at "inspect" or "next" while  *)
(* it awaits the runtime, at "lock_add", "lock_log" or "lock_remove" while *)
(* it requests the lock, at "add", "log" or "remove" while it holds it,    *)
(* and at "done" when it has returned.  The UI loop is at "lock_draw",     *)
(* "lock_key" or "lock_store" while it requests the lock, at "draw", "key" *)
(* or "store" while it holds it, at "poll" in event::poll and at "inspect" *)
(* while it awaits get_container_info.  The containers do not restart      *)
(* here.                                                                   *)

\* the line log_container formats for the k-th chunk of the runtime
line_of(name, k) == log_line(name, descriptor_of(chunk_of(k)), k)

\* a spawned log_container with the chunk it has received
LockTask(id) ==
    [id |-> id, pc |-> "inspect", name |-> <<>>, color_index |-> 0,
     eof |-> FALSE, chunk |-> 0]

\* the holders of the lock: the UI loop, and the task at index t
UiHolder == <<"ui", 0>>

TaskHolder(t) == <<"task", t>>

\* the keys of lines 864-889 whose arm takes the lock
LockKeys == {"Down", "Up", "Space", "a", "n", "i"}

\* the guard is kept over the call that follows
drop_guard_forgotten(l) == l

\* drop(app), line 901, and the end of a block that holds the guard
drop_guard(l) == None

\* lines 896-899: the id of the container that the key i inspects
info_target(a) ==
    IF a.list_state # None /\ a.list_state[1] < Len(a.containers)
    THEN Some(a.containers[a.list_state[1] + 1].id)
    ELSE None

\* get_container_info: the text for the overlay
get_container_info(id, outcome) ==
    IF outcome = "ok" THEN <<"ID: ", id>> ELSE <<"Failed to inspect container">>

\* the variables the lock actions leave alone
lockRest == <<listed, watcher, starts, follow, watched, color_counter,
              main, terminal, errors, frame, logs_mode>>

\* log_container, lines 720-745: inspect returns; the task returns, or
\* requests the lock for add_container
LockInspect(t, outcome) ==
    /\ tasks[t].pc = "inspect"
    /\ LET n == name_after_inspect(TuiRegex, tasks[t].id, outcome)
       IN tasks' = IF n = None
                   THEN [tasks EXCEPT ![t].pc = "done"]
                   ELSE [tasks EXCEPT ![t].pc = "lock_add", ![t].name = n[1]]
    /\ UNCHANGED <<app, delivered, lock, ui>>
    /\ UNCHANGED lockRest

\* log_container, lines 745, 773 and 782: lock().await is granted
LockGranted(t) ==
    /\ tasks[t].pc \in {"lock_add", "lock_log", "lock_remove"}
    /\ lock = None
    /\ lock' = Some(TaskHolder(t))
    /\ tasks' = [tasks EXCEPT ![t].pc =
                    CASE tasks[t].pc = "lock_add" -> "add"
                      [] tasks[t].pc = "lock_log" -> "log"
                      [] tasks[t].pc = "lock_remove" -> "remove"]
    /\ UNCHANGED <<app, delivered, ui>>
    /\ UNCHANGED lockRest

\* log_container, lines 744-757: add_container, the guard dropped at the
\* end of the block, and the log stream opened
LockAddContainer(t) ==
    /\ tasks[t].pc = "add"
    /\ lock = Some(TaskHolder(t))
    /\ app' = add_container(app, tasks[t].id, tasks[t].name)
    /\ lock' = drop_guard(lock)
    /\ tasks' = [tasks EXCEPT ![t].pc = "next"]
    /\ UNCHANGED <<delivered, ui>>
    /\ UNCHANGED lockRest

\* log_container, lines 758-773: stream.next() yields an Ok chunk, the line
\* is formatted and the lock is requested
LockChunk(t) ==
    /\ tasks[t].pc = "next"
    /\ delivered < MaxChunks
    /\ delivered' = delivered + 1
    /\ tasks' = [tasks EXCEPT ![t].pc = "lock_log", ![t].chunk = delivered + 1]
    /\ UNCHANGED <<app, lock, ui>>
    /\ UNCHANGED lockRest

\* log_container, lines 773-775: add_log, the guard dropped at the end of
\* the match arm
LockAddLog(t) ==
    /\ tasks[t].pc = "log"
    /\ lock = Some(TaskHolder(t))
    /\ app' = add_log(app, tasks[t].name, line_of(tasks[t].name, tasks[t].chunk))
    /\ lock' = drop_guard(lock)
    /\ tasks' = [tasks EXCEPT ![t].pc = "next"]
    /\ UNCHANGED <<delivered, ui>>
    /\ UNCHANGED lockRest

\* log_container, lines 758 and 776-782: stream.next() yields None or an
\* Err, and the lock is requested for remove_container
LockStreamEnd(t) ==
    /\ tasks[t].pc = "next"
    /\ tasks' = [tasks EXCEPT ![t].pc = "lock_remove"]
    /\ UNCHANGED <<app, delivered, lock, ui>>
    /\ UNCHANGED lockRest

\* log_container, lines 781-785: remove_container, the guard dropped, return
LockRemoveContainer(t) ==
    /\ tasks[t].pc = "remove"
    /\ lock = Some(TaskHolder(t))
    /\ app' = remove_container(app, tasks[t].id)
    /\ lock' = drop_guard(lock)
    /\ tasks' = [tasks EXCEPT ![t].pc = "done"]
    /\ UNCHANGED <<delivered, ui>>
    /\ UNCHANGED lockRest

\* run_tui, lines 855, 866, 871, 876, 881, 886, 891 and 908: block_on(lock())
\* is granted to the UI loop
UiLockGranted ==
    /\ ui.pc \in {"lock_draw", "lock_key", "lock_store"}
    /\ lock = None
    /\ lock' = Some(UiHolder)
    /\ ui' = [ui EXCEPT !.pc = CASE ui.pc = "lock_draw" -> "draw"
                                 [] ui.pc = "lock_key" -> "key"
                                 [] ui.pc = "lock_store" -> "store"]
    /\ UNCHANGED <<app, tasks, delivered>>
    /\ UNCHANGED lockRest

\* run_tui, lines 854-857: the frame is drawn under the lock
UiDraw ==
    /\ ui.pc = "draw"
    /\ lock = Some(UiHolder)
    /\ lock' = drop_guard(lock)
    /\ ui' = [ui EXCEPT !.pc = "poll"]
    /\ UNCHANGED <<app, tasks, delivered>>
    /\ UNCHANGED lockRest

\* run_tui, lines 860-862 and 914: no key within 100 ms, or a key that no
\* arm handles
UiNoKey ==
    /\ ui.pc = "poll"
    /\ ui' = [ui EXCEPT !.pc = "lock_draw"]
    /\ UNCHANGED <<app, tasks, delivered, lock>>
    /\ UNCHANGED lockRest

\* run_tui, lines 860-890: a key whose arm starts with block_on(lock())
UiKeyRead(key) ==
    /\ ui.pc = "poll"
    /\ ui' = [ui EXCEPT !.pc = "lock_key", !.key = Some(key)]
    /\ UNCHANGED <<app, tasks, delivered, lock>>
    /\ UNCHANGED lockRest

\* run_tui, lines 864-888: the arm of Down, Up, Space, a or n
UiKeyMethod ==
    /\ ui.pc = "key"
    /\ lock = Some(UiHolder)
    /\ ui.key # Some("i")
    /\ app' = CASE ui.key = Some("Down") -> next(app)
                [] ui.key = Some("Up") -> previous(app)
                [] ui.key = Some("Space") -> toggle_selected(app)
                [] ui.key = Some("a") -> select_all(app)
                [] ui.key = Some("n") -> deselect_all(app)
    /\ lock' = drop_guard(lock)
    /\ ui' = [ui EXCEPT !.pc = "lock_draw", !.key = None]
    /\ UNCHANGED <<tasks, delivered>>
    /\ UNCHANGED lockRest

\* run_tui, lines 889-901: the arm of i up to the call of
\* get_container_info: the overlay is closed, or nothing is done, or the
\* guard is dropped and the container of the focused index is inspected
UiKeyInfo ==
    /\ ui.pc = "key"
    /\ lock = Some(UiHolder)
    /\ ui.key = Some("i")
    /\ tasks' = tasks
    /\ delivered' = delivered
    /\ IF app.show_info
       THEN /\ app' = [app EXCEPT !.show_info = FALSE]
            /\ lock' = drop_guard(lock)
            /\ ui' = [ui EXCEPT !.pc = "lock_draw", !.key = None]
       ELSE IF info_target(app) = None
       THEN /\ app' = app
            /\ lock' = drop_guard(lock)
            /\ ui' = [ui EXCEPT !.pc = "lock_draw", !.key = None]
       ELSE /\ app' = app
            /\ lock' = drop_guard(lock)
            /\ ui' = [ui EXCEPT !.pc = "inspect", !.fetch_id = info_target(app)]
    /\ UNCHANGED lockRest

\* run_tui, lines 903-908: get_container_info returns, and the lock is
\* requested again
UiInfoFetched(outcome) ==
    /\ ui.pc = "inspect"
    /\ ui' = [ui EXCEPT !.pc = "lock_store",
                        !.info = get_container_info(ui.fetch_id[1], outcome)]
    /\ UNCHANGED <<app, tasks, delivered, lock>>
    /\ UNCHANGED lockRest

\* run_tui, lines 907-911: the text is stored and the overlay is opened
UiStoreInfo ==
    /\ ui.pc = "store"
    /\ lock = Some(UiHolder)
    /\ app' = [app EXCEPT !.info_text = ui.info, !.show_info = TRUE]
    /\ lock' = drop_guard(lock)
    /\ ui' = UiLoop("lock_draw", None)
    /\ UNCHANGED <<tasks, delivered>>
    /\ UNCHANGED lockRest

\* run_tui, line 850: the tasks of the listed containers c1 and c2 are
\* spawned, the event stream yields nothing, and the UI loop starts
LockInit ==
    /\ app = AppState_new(MaxLogs)
    /\ tasks = <<LockTask("c1"), LockTask("c2")>>
    /\ listed = <<>>
    /\ watcher = "watching"
    /\ starts = 0
    /\ delivered = 0
    /\ follow = TRUE
    /\ watched = {}
    /\ color_counter = 0
    /\ main = "running"
    /\ terminal = TerminalSetUp
    /\ lock = None
    /\ ui = UiLoop("lock_draw", None)
    /\ errors = 0
    /\ frame = NoFrame
    /\ logs_mode = NoGuards

LockNext ==
    \/ \E t \in 1..Len(tasks) : \E outcome \in {"ok", "err", "noname"} : LockInspect(t, outcome)
    \/ \E t \in 1..Len(tasks) : LockGranted(t)
    \/ \E t \in 1..Len(tasks) : LockAddContainer(t)
    \/ \E t \in 1..Len(tasks) : LockChunk(t)
    \/ \E t \in 1..Len(tasks) : LockAddLog(t)
    \/ \E t \in 1..Len(tasks) : LockStreamEnd(t)
    \/ \E t \in 1..Len(tasks) : LockRemoveContainer(t)
    \/ UiLockGranted
    \/ UiDraw
    \/ UiNoKey
    \/ \E key \in LockKeys : UiKeyRead(key)
    \/ UiKeyMethod
    \/ UiKeyInfo
    \/ \E outcome \in {"ok", "err"} : UiInfoFetched(outcome)
    \/ UiStoreInfo

LockSpec == LockInit /\ [][LockNext]_vars

----------------------------------------------------------------------------
(* The two mutexes of dump mode: watched_containers and color_counter      *)
(* (src/main.rs), with every lock().await as a request and a grant.  The   *)
(* loop of run_logs_mode is at "lock_listed" or "lock_event" while it      *)
(* requests watched_containers and at "check_listed" or "check_event"      *)
(* while it holds it.  A task is at "lock_color" while it requests         *)
(* color_counter, at "color" while it holds it, at "inspect" and "stream"  *)
(* while it awaits the runtime, at "lock_remove" while it requests         *)
(* watched_containers, at "remove" while it holds it, and at "done" when   *)
(* it has returned.  The event stream does not end here.                   *)

\* the loop of run_logs_mode as a holder
MainHolder == <<"main", 0>>

\* run_logs_mode, lines 189-196: the next listed container; one without an
\* id is skipped, for the others watched_containers is requested
GuardListNext ==
    /\ watcher = "list"
    /\ listed # <<>>
    /\ listed' = Tail(listed)
    /\ IF Head(listed) = None
       THEN UNCHANGED <<watcher, logs_mode>>
       ELSE /\ watcher' = "lock_listed"
            /\ logs_mode' = [logs_mode EXCEPT !.container_id = Head(listed)]
    /\ UNCHANGED <<app, tasks, starts, delivered, lock, ui, errors, frame>>
    /\ UNCHANGED dumpVars
    /\ UNCHANGED termVars

\* run_logs_mode, lines 196 and 256: watched_containers.lock().await is
\* granted to the loop
GuardMainGranted ==
    /\ watcher \in {"lock_listed", "lock_event"}
    /\ logs_mode.watched = None
    /\ logs_mode' = [logs_mode EXCEPT !.watched = Some(MainHolder)]
    /\ watcher' = IF watcher = "lock_listed" THEN "check_listed" ELSE "check_event"
    /\ UNCHANGED <<app, tasks, listed, starts, delivered, lock, ui, errors, frame>>
    /\ UNCHANGED dumpVars
    /\ UNCHANGED termVars

\* run_logs_mode, lines 197-226 and 257-285: under the guard the id is
\* looked up; continue drops the guard, or the id is inserted, the guard is
\* dropped and the task is spawned
GuardCheckAndInsert ==
    /\ watcher \in {"check_listed", "check_event"}
    /\ logs_mode.watched = Some(MainHolder)
    /\ LET id == logs_mode.container_id[1]
       IN IF check_and_insert(watched, id)
          THEN /\ watched' = watched \cup {id}
               /\ tasks' = Append(tasks, [LockTask(id) EXCEPT !.pc = "lock_color"])
          ELSE UNCHANGED <<watched, tasks>>
    /\ logs_mode' = [logs_mode EXCEPT !.watched = drop_guard(logs_mode.watched),
                                      !.container_id = None]
    /\ watcher' = IF watcher = "check_listed" THEN "list" ELSE "watching"
    /\ UNCHANGED <<app, listed, starts, delivered, follow, color_counter>>
    /\ UNCHANGED <<lock, ui, errors, frame>>
    /\ UNCHANGED termVars

\* run_logs_mode, lines 230-242: the list is done
GuardListed ==
    /\ watcher = "list"
    /\ listed = <<>>
    /\ watcher' = IF follow THEN "watching" ELSE "join"
    /\ UNCHANGED <<app, tasks, listed, starts, delivered>>
    /\ UNCHANGED dumpVars
    /\ UNCHANGED termVars
    /\ UNCHANGED sideVars

\* run_logs_mode, lines 231-235: every task has returned
GuardJoined ==
    /\ watcher = "join"
    /\ \A t \in 1..Len(tasks) : tasks[t].pc = "done"
    /\ watcher' = "exit"
    /\ UNCHANGED <<app, tasks, listed, starts, delivered>>
    /\ UNCHANGED dumpVars
    /\ UNCHANGED termVars
    /\ UNCHANGED sideVars

\* run_logs_mode, lines 244-256 and 287-290: one item of the event stream;
\* for a container start with an id watched_containers is requested
GuardEvent(event) ==
    /\ watcher = "watching"
    /\ IF started_id(event) = None
       THEN UNCHANGED <<watcher, starts, logs_mode>>
       ELSE /\ starts < MaxStarts
            /\ starts' = starts + 1
            /\ watcher' = "lock_event"
            /\ logs_mode' = [logs_mode EXCEPT !.container_id = started_id(event)]
    /\ UNCHANGED <<app, tasks, listed, delivered, lock, ui, errors, frame>>
    /\ UNCHANGED dumpVars
    /\ UNCHANGED termVars

\* lines 211 and 270: counter.lock().await is granted to the task;
\* start_logging_container, lines 66, 80, 85 and 130:
\* watched_containers.lock().await is granted to it
GuardTaskGranted(t) ==
    /\ tasks[t].pc \in {"lock_color", "lock_remove"}
    /\ IF tasks[t].pc = "lock_color"
       THEN /\ logs_mode.counter = None
            /\ logs_mode' = [logs_mode EXCEPT !.counter = Some(TaskHolder(t))]
            /\ tasks' = [tasks EXCEPT ![t].pc = "color"]
       ELSE /\ logs_mode.watched = None
            /\ logs_mode' = [logs_mode EXCEPT !.watched = Some(TaskHolder(t))]
            /\ tasks' = [tasks EXCEPT ![t].pc = "remove"]
    /\ UNCHANGED <<app, listed, watcher, starts, delivered, lock, ui, errors, frame>>
    /\ UNCHANGED dumpVars
    /\ UNCHANGED termVars

\* lines 211-214 and 270-273: the color index is taken, the counter is
\* incremented and drop(color_idx) releases it
GuardTakeColor(t) ==
    /\ tasks[t].pc = "color"
    /\ logs_mode.counter = Some(TaskHolder(t))
    /\ tasks' = [tasks EXCEPT ![t].pc = "inspect", ![t].color_index = color_counter]
    /\ color_counter' = color_counter + 1
    /\ logs_mode' = [logs_mode EXCEPT !.counter = drop_guard(logs_mode.counter)]
    /\ UNCHANGED <<app, listed, watcher, starts, delivered, follow, watched>>
    /\ UNCHANGED <<lock, ui, errors, frame>>
    /\ UNCHANGED termVars

\* start_logging_container, lines 60-91: inspect returns; on an early
\* return watched_containers is requested
GuardInspect(t, outcome) ==
    /\ tasks[t].pc = "inspect"
    /\ LET n == name_after_inspect(DumpRegex, tasks[t].id, outcome)
       IN tasks' = IF n = None
                   THEN [tasks EXCEPT ![t].pc = "lock_remove"]
                   ELSE [tasks EXCEPT ![t].pc = "stream", ![t].name = n[1]]
    /\ UNCHANGED <<app, listed, watcher, starts, delivered>>
    /\ UNCHANGED dumpVars
    /\ UNCHANGED termVars
    /\ UNCHANGED sideVars

\* start_logging_container, lines 92-119: one Ok chunk is printed
GuardChunk(t) ==
    /\ tasks[t].pc = "stream"
    /\ delivered < MaxChunks
    /\ delivered' = delivered + 1
    /\ UNCHANGED <<app, tasks, listed, watcher, starts>>
    /\ UNCHANGED dumpVars
    /\ UNCHANGED termVars
    /\ UNCHANGED sideVars

\* start_logging_container, lines 92 and 120-130: the stream ends or
\* yields an error, and watched_containers is requested
GuardStreamEnd(t) ==
    /\ tasks[t].pc = "stream"
    /\ tasks' = [tasks EXCEPT ![t].pc = "lock_remove"]
    /\ UNCHANGED <<app, listed, watcher, starts, delivered>>
    /\ UNCHANGED dumpVars
    /\ UNCHANGED termVars
    /\ UNCHANGED sideVars

\* start_logging_container, lines 66, 80, 85 and 130: the id is removed and
\* the guard, a temporary of the statement, is dropped; the task returns
GuardRemove(t) ==
    /\ tasks[t].pc = "remove"
    /\ logs_mode.watched = Some(TaskHolder(t))
    /\ watched' = watched \ {tasks[t].id}
    /\ logs_mode' = [logs_mode EXCEPT !.watched = drop_guard(logs_mode.watched)]
    /\ tasks' = [tasks EXCEPT ![t].pc = "done"]
    /\ UNCHANGED <<app, listed, watcher, starts, delivered, follow, color_counter>>
    /\ UNCHANGED <<lock, ui, errors, frame>>
    /\ UNCHANGED termVars

\* run_logs_mode, line 187: list() has returned d1 and a container without
\* an id
GuardInit ==
    /\ app = AppState_new(MaxLogs)
    /\ tasks = <<>>
    /\ listed = <<Some("d1"), None>>
    /\ watcher = "list"
    /\ starts = 0
    /\ delivered = 0
    /\ follow \in BOOLEAN
    /\ watched = {}
    /\ color_counter = 0
    /\ main = "run_logs_mode"
    /\ terminal = TerminalUntouched
    /\ lock = None
    /\ ui = UiLoop("lock_draw", None)
    /\ errors = 0
    /\ frame = NoFrame
    /\ logs_mode = NoGuards

GuardNext ==
    \/ GuardListNext
    \/ GuardMainGranted
    \/ GuardCheckAndInsert
    \/ GuardListed
    \/ GuardJoined
    \/ \E event \in EventItems(DumpIds) : GuardEvent(event)
    \/ \E t \in 1..Len(tasks) : GuardTaskGranted(t)
    \/ \E t \in 1..Len(tasks) : GuardTakeColor(t)
    \/ \E t \in 1..Len(tasks) : \E outcome \in {"ok", "err", "noname"} : GuardInspect(t, outcome)
    \/ \E t \in 1..Len(tasks) : GuardChunk(t)
    \/ \E t \in 1..Len(tasks) : GuardStreamEnd(t)
    \/ \E t \in 1..Len(tasks) : GuardRemove(t)

----------------------------------------------------------------------------
(* The locks of both modes under fair scheduling.  tokio's Mutex hands the *)
(* lock to its waiters in the order of their requests, so a request that   *)
(* can be granted again and again is granted (strong fairness), and a task *)
(* that holds a guard and is not awaiting anything goes on (weak           *)
(* fairness).  Nothing is assumed of the runtime, of the keyboard or of    *)
(* the event stream.                                                       *)

\* the most tasks there are: the listed one and one for each start
MaxTasks == 1 + MaxStarts

\* run_tui, line 850: the task of the listed container c1 is spawned and the
\* UI loop starts
FairTuiInit ==
    /\ app = AppState_new(MaxLogs)
    /\ tasks = <<LockTask("c1")>>
    /\ listed = <<>>
    /\ watcher = "watching"
    /\ starts = 0
    /\ delivered = 0
    /\ follow = TRUE
    /\ watched = {}
    /\ color_counter = 0
    /\ main = "running"
    /\ terminal = TerminalSetUp
    /\ lock = None
    /\ ui = UiLoop("lock_draw", None)
    /\ errors = 0
    /\ frame = NoFrame
    /\ logs_mode = NoGuards

FairInit == FairTuiInit \/ GuardInit

FairNext ==
    \/ main = "running" /\ LockNext
    \/ main = "run_logs_mode" /\ GuardNext

\* a lock().await of the task at index t is granted
TaskGranted(t) ==
    /\ t \in 1..Len(tasks)
    /\ \/ main = "running" /\ LockGranted(t)
       \/ main = "run_logs_mode" /\ GuardTaskGranted(t)

\* the task at index t goes on under its guard and drops it
TaskReleases(t) ==
    /\ t \in 1..Len(tasks)
    /\ \/ main = "running" /\ (LockAddContainer(t) \/ LockAddLog(t) \/ LockRemoveContainer(t))
       \/ main = "run_logs_mode" /\ (GuardTakeColor(t) \/ GuardRemove(t))

\* a lock() of the UI loop or of the loop of run_logs_mode is granted
LoopGranted ==
    \/ main = "running" /\ UiLockGranted
    \/ main = "run_logs_mode" /\ GuardMainGranted

\* the loop goes on under its guard and drops it
LoopReleases ==
    \/ main = "running" /\ (UiDraw \/ UiKeyMethod \/ UiKeyInfo \/ UiStoreInfo)
    \/ main = "run_logs_mode" /\ GuardCheckAndInsert

Fairness ==
    /\ \A t \in 1..MaxTasks : SF_vars(TaskGranted(t)) /\ WF_vars(TaskReleases(t))
    /\ SF_vars(LoopGranted)
    /\ WF_vars(LoopReleases)

FairSpec == FairInit /\ [][FairNext]_vars /\ Fairness

----------------------------------------------------------------------------
(* The event stream with its error items, in both modes.  No key is       *)
(* pressed: the keys do not touch the watcher.                            *)

\* an Err item that ends the loop of the watcher
after_event_error_break(w) == "ended"

\* tui.rs, line 830, and main.rs, lines 287-290: an Err item is skipped and
\* the loop goes on with events.next()
after_event_error(w) == w

\* run_tui, lines 829-830: the event stream yields an Err item
WatchError ==
    /\ listed = <<>>
    /\ watcher = "watching"
    /\ errors < MaxErrors
    /\ errors' = errors + 1
    /\ watcher' = after_event_error(watcher)
    /\ UNCHANGED <<app, tasks, listed, starts, delivered>>
    /\ UNCHANGED <<dumpVars, termVars, lock, ui, frame, logs_mode>>

\* run_logs_mode, lines 244 and 287-290: the event stream yields an Err item
DumpWatchError ==
    /\ watcher = "watching"
    /\ errors < MaxErrors
    /\ errors' = errors + 1
    /\ watcher' = after_event_error(watcher)
    /\ UNCHANGED <<app, tasks, listed, starts, delivered>>
    /\ UNCHANGED <<dumpVars, termVars, lock, ui, frame, logs_mode>>

\* the Ok items the event stream can yield next
OkEventItems(ids) == {event \in EventItems(ids) : event.ok}

EventInit == Init \/ DumpInit

EventNext ==
    \/ main = "running" /\ SpawnListed
    \/ main = "running" /\ \E t \in 1..Len(tasks) : \E outcome \in {"ok", "err", "noname"} : AddContainer(t, outcome)
    \/ main = "running" /\ \E t \in 1..Len(tasks) : RecvChunk(t)
    \/ main = "running" /\ \E t \in 1..Len(tasks) : \E item \in {"end", "err"} : RemoveContainer(t, item)
    \/ main = "running" /\ \E event \in OkEventItems(TuiIds) : WatchEvent(event)
    \/ main = "running" /\ WatchError
    \/ main = "running" /\ WatchEnd
    \/ main = "running" /\ \E id \in TuiIds : RuntimeStop(id)
    \/ main = "run_logs_mode" /\ DumpNext
    \/ main = "run_logs_mode" /\ DumpWatchError

EventSpec == EventInit /\ [][EventNext]_vars

----------------------------------------------------------------------------
(* The renderer: ui (src/tui.rs), the right pane.  A character is a string: *)
(* "a" a letter, "1" a digit, "[" the bracket, and ESC, TAB, LF, CR and BEL *)
(* the control characters of these names.                                  *)

Chars == {"a", "1", "[", "ESC", "TAB", "LF", "CR", "BEL"}

\* char::is_ascii_alphabetic
is_ascii_alphabetic(ch) == ch = "a"

\* char::is_control
is_control(ch) == ch \in {"ESC", "TAB", "LF", "CR", "BEL"}

\* strip_ansi_codes, lines 65-70: skip up to and with the first letter
RECURSIVE skip_sequence(_)
skip_sequence(s) ==
    IF s = <<>> THEN <<>>
    ELSE IF is_ascii_alphabetic(Head(s)) THEN Tail(s)
    ELSE skip_sequence(Tail(s))

\* strip_ansi_codes
RECURSIVE strip_ansi_codes(_)
strip_ansi_codes(s) ==
    IF s = <<>> THEN <<>>
    ELSE IF Head(s) = "ESC"
    THEN IF Len(s) >= 2 /\ s[2] = "["
         THEN strip_ansi_codes(skip_sequence(Tail(Tail(s))))
         ELSE strip_ansi_codes(Tail(s))
    ELSE <<Head(s)>> \o strip_ansi_codes(Tail(s))

\* str::replace(from, to) for a character from and a string to
RECURSIVE replace(_, _, _)
replace(s, from, to) ==
    IF s = <<>> THEN <<>>
    ELSE (IF Head(s) = from THEN to ELSE <<Head(s)>>) \o replace(Tail(s), from, to)

\* ui, lines 429-431: .chars().filter(|c| !c.is_control() || *c == ' ')
filter_control(s) == SelectSeq(s, LAMBDA c : ~is_control(c) \/ c = " ")

\* ui, lines 427-434: the sanitized line
sanitize(line) ==
    replace(replace(replace(filter_control(strip_ansi_codes(line)),
                            "CR", <<>>),
                    "LF", <<" ">>),
            "TAB", <<" ", " ", " ", " ">>)

\* ui, lines 416-420: the budget of a line, for the width of the right pane
max_width(width) == IF width > 8 THEN width - 8 ELSE 5

\* the lines of at most n characters
RECURSIVE Lines(_)
Lines(n) ==
    IF n = 0 THEN {<<>>}
    ELSE Lines(n - 1) \cup {Append(l, c) : l \in {m \in Lines(n - 1) : Len(m) = n - 1}, c \in Chars}

\* ui: one frame is drawn
Draw ==
    /\ frame.out = None
    /\ frame' = [frame EXCEPT !.out = Some([max_width |-> max_width(frame.width),
                                            sanitized |-> sanitize(frame.line)])]
    /\ UNCHANGED <<app, tasks, listed, watcher, starts, delivered>>
    /\ UNCHANGED <<dumpVars, termVars, lock, ui, errors, logs_mode>>

\* ui is about to be called with a right pane of some width and some line
\* in the merged buffer
RenderInit ==
    /\ app = AppState_new(MaxLogs)
    /\ tasks = <<>>
    /\ listed = <<>>
    /\ watcher = "watching"
    /\ starts = 0
    /\ delivered = 0
    /\ follow = TRUE
    /\ watched = {}
    /\ color_counter = 0
    /\ main = "running"
    /\ terminal = TerminalSetUp
    /\ lock = None
    /\ ui = UiLoop("lock_draw", None)
    /\ errors = 0
    /\ frame \in [width : 0..MaxWidth, line : Lines(MaxLineLen), out : {None}]
    /\ logs_mode = NoGuards

RenderNext == Draw

RenderSpec == RenderInit /\ [][RenderNext]_vars

----------------------------------------------------------------------------
(* Properties *)

\* a row of the container list is focused
RowFocused(a) ==
    /\ ~a.select_all_focused
    /\ a.list_state # None
    /\ a.list_state[1] < Len(a.containers)

\* the ids of the Container entries
EntryIds(a) == {a.containers[k].id : k \in 1..Len(a.containers)}

\* the tasks attached to container id that are at one of the positions pcs
TasksAt(id, pcs) ==
    {t \in 1..Len(tasks) : tasks[t].id = id /\ tasks[t].pc \in pcs}

\* C1: every per-container buffer holds at most max_logs lines, in every
\* reachable App State.
C1_ContainerBufferBounded ==
    \A n \in DOMAIN app.container_logs :
        Len(app.container_logs[n]) <= app.max_logs

\* C1 witness: the only task there has been has received more than
\* max_logs chunks, so its buffer is full and its oldest line is evicted.
C1_Witness ==
    /\ starts = 0
    /\ delivered > app.max_logs
    /\ \E n \in DOMAIN app.container_logs :
          /\ Len(app.container_logs[n]) = app.max_logs
          /\ app.container_logs[n][1].text = delivered - app.max_logs + 1

\* C2: the merged buffer holds at most max_logs lines, after an append in
\* add_log and after a rebuild in update_displayed_logs.
C2_MergedBufferBounded == Len(app.logs) <= app.max_logs

\* C2 witness: the selected containers buffer more than max_logs lines
\* together, and the merged buffer is full.
C2_Witness ==
    /\ Len(all_logs_of(app.containers, app.container_logs)) > app.max_logs
    /\ Len(app.logs) = app.max_logs
    /\ Len(app.containers) >= 2

\* no two Container entries have the same name
NamesDistinct(a) ==
    \A j, k \in 1..Len(a.containers) :
        a.containers[j].name = a.containers[k].name => j = k

\* C3 as stated, for lists in which no two containers share a name: with a
\* row focused, toggle_selected twice leaves the merged buffer equal, element
\* for element and in the same order, to the buffer before the first call.
C3_ToggleTwiceRestoresBuffer ==
    (RowFocused(app) /\ NamesDistinct(app)) =>
        toggle_selected(toggle_selected(app)).logs = app.logs

\* C3 as amended: with a row focused, toggle_selected twice restores every
\* selected flag and leaves the merged buffer equal to the rebuild for that
\* selection (the buffers of the selected containers, concatenated in list
\* order, cut to the last max_logs), and changes nothing else.
C3_ToggleTwiceRebuilds ==
    RowFocused(app) =>
        toggle_selected(toggle_selected(app)) = update_displayed_logs(app)

\* C3 witness: a row is focused, the names differ, the first toggle changes
\* the merged buffer, and the second gives the rebuild, which holds the
\* lines of the buffer before in another order.
C3_Witness ==
    /\ RowFocused(app)
    /\ NamesDistinct(app)
    /\ Len(app.logs) = 2
    /\ toggle_selected(app).logs # app.logs
    /\ toggle_selected(toggle_selected(app)).logs = update_displayed_logs(app).logs
    /\ update_displayed_logs(app).logs = <<app.logs[2], app.logs[1]>>

\* C4 as stated: in TUI mode no container id has two log_container tasks
\* draining its log stream at once.
C4_OneStreamPerContainer ==
    \A id \in TuiIds : Cardinality(TasksAt(id, {"stream"})) <= 1

\* C5: in dump mode a task is spawned for an id only if the id is not in
\* the Watched set, so no two tasks for one id exist at the same time, and
\* the id of every task is in the Watched set.
C5_OneTaskPerWatchedId ==
    \A id \in DumpIds :
        /\ Cardinality(TasksAt(id, {"color", "inspect", "stream", "stopped"})) <= 1
        /\ TasksAt(id, {"color", "inspect", "stream", "stopped"}) # {} => id \in watched

\* C5 witness: a start event was handled, and the three tasks of the listed
\* containers are the only tasks there have been: the event was skipped.
C5_Witness ==
    /\ starts = 1
    /\ Len(tasks) = 3
    /\ color_counter = 3
    /\ \A t \in 1..Len(tasks) : tasks[t].pc # "color"

\* C6 as stated: in TUI mode a Container entry with id X is present exactly
\* while a task for X is between its add_container and its exit.
C6_EntryWhileAttached ==
    \A id \in TuiIds : id \in EntryIds(app) <=> TasksAt(id, {"stream"}) # {}

\* C7: in dump mode every exit of a task removes its id from the Watched
\* set: an id is in the set exactly while a task for it has not returned.
C7_WatchedIffTask ==
    \A id \in DumpIds :
        id \in watched <=>
            TasksAt(id, {"color", "inspect", "stream", "stopped"}) # {}

\* C7 witness: four tasks have taken a color, so a start event attached
\* again to a listed id whose first task had returned, and the new task
\* streams.
C7_Witness ==
    /\ color_counter = 4
    /\ \E t \in 1..Len(tasks) : tasks[t].pc = "stream" /\ tasks[t].color_index = 3

\* C8 as stated: the id of cache is never in the Watched set.
C8_CacheNeverWatched == "d3" \notin watched

\* C8 as amended: only app-api and app-db are streamed; the id of cache is in
\* the Watched set only while its task has not yet returned from the filter
\* (it is inserted before inspect), never while a log stream is open on it.
C8_CacheWatchedOnlyBeforeFilter ==
    /\ \A t \in 1..Len(tasks) :
          tasks[t].pc \in {"stream", "stopped"} => tasks[t].id \in {"d1", "d2"}
    /\ "d3" \in watched => TasksAt("d3", {"color", "inspect"}) # {}

\* C8 witness: app-api and app-db are streamed and the task of cache has
\* returned.
C8_Witness ==
    /\ TasksAt("d1", {"stream"}) # {}
    /\ TasksAt("d2", {"stream"}) # {}
    /\ color_counter >= 3
    /\ "d3" \notin watched

\* C9: the Container list is sorted by name ascending.
C9_SortedByName ==
    \A k \in 1..(Len(app.containers) - 1) :
        StrLe(app.containers[k].name, app.containers[k + 1].name)

\* C9 witness: db was added after web and stands before it.
C9_Witness ==
    /\ Len(app.containers) = 2
    /\ app.containers[1].name = Str_db
    /\ app.containers[2].name = Str_web
    /\ app.containers[1].color_index > app.containers[2].color_index

\* C10: a focused list index is smaller than the number of containers, so
\* next and previous never subtract 1 from the length of an empty list.
C10_FocusInRange ==
    /\ app.list_state # None => app.list_state[1] < Len(app.containers)
    /\ ~(~app.select_all_focused /\ app.list_state # None /\ app.containers = <<>>)

\* C10 witness: a container was removed and the last row is focused.
C10_Witness ==
    /\ ~app.select_all_focused
    /\ app.color_counter > Len(app.containers)
    /\ Len(app.containers) >= 1
    /\ app.list_state = Some(Len(app.containers) - 1)

\* C11 as stated: the ALL row and a row of the list are never both focused:
\* select_all_focused and list_state.selected() = Some(i) never hold together.
C11_AtMostOneFocus == ~(app.select_all_focused /\ app.list_state # None)

\* C12 as stated: whenever the Container list is empty, the focus is on ALL.
C12_EmptyListFocusesAll == app.containers = <<>> => app.select_all_focused

\* next() called n times
RECURSIVE next_n(_, _)
next_n(a, n) == IF n = 0 THEN a ELSE next(next_n(a, n - 1))

\* C13 as stated: with ALL focused and N containers in the list, for every
\* N >= 0, the j-th of N + 1 calls of next() focuses row j - 1, for j in 1..N,
\* and the last call focuses ALL again.
C13_NextRotationReturnsToAll ==
    app.select_all_focused =>
        LET N == Len(app.containers)
        IN /\ \A j \in 1..N :
                 /\ ~next_n(app, j).select_all_focused
                 /\ next_n(app, j).list_state = Some(j - 1)
           /\ next_n(app, N + 1).select_all_focused

\* the last n elements of s
LastN(s, n) == SubSeq(s, (IF Len(s) > n THEN Len(s) - n ELSE 0) + 1, Len(s))

\* the buffers of the containers in list order, the buffer of a name taken
\* once
RECURSIVE buffers_once(_, _, _)
buffers_once(containers, container_logs, seen) ==
    IF containers = <<>> THEN <<>>
    ELSE IF Head(containers).name \in seen
    THEN buffers_once(Tail(containers), container_logs, seen)
    ELSE logs_of(container_logs, Head(containers).name)
         \o buffers_once(Tail(containers), container_logs,
                         seen \cup {Head(containers).name})

\* C14 as stated: after select_all() the merged buffer is the last max_logs
\* lines of the concatenation, in list order, of the buffers of all
\* containers, each buffer taken exactly once, also when two containers of
\* the list have the same name.
C14_SelectAllConcatenatesOnce ==
    select_all(app).logs =
        LastN(buffers_once(app.containers, app.container_logs, {}), app.max_logs)

\* C15: select_all() called again right after select_all() changes nothing:
\* the merged buffer and every selected flag stay as the first call left them.
C15_SelectAllTwice == select_all(select_all(app)) = select_all(app)

\* C15 witness: two containers, one of them deselected, and buffered lines:
\* the first select_all() changes flags and merged buffer, the second
\* changes nothing.
C15_Witness ==
    /\ Len(app.containers) >= 2
    /\ \E k \in 1..Len(app.containers) : ~app.containers[k].selected
    /\ select_all(app).logs # app.logs
    /\ select_all(app).logs # <<>>
    /\ select_all(select_all(app)) = select_all(app)

\* C16: add_container(id, name) with an id that is in the list changes
\* nothing of the App State: a second call after a first one is a no-op.
C16_AddContainerIdempotent ==
    \A id \in TuiIds :
        LET name == strip_prefix(inspect_name(id))
            once == add_container(app, id, name)
        IN /\ \E k \in 1..Len(once.containers) : once.containers[k].id = id
           /\ add_container(once, id, name) = once

\* C16 witness: two tasks of one container have both called add_container
\* and stream; the list holds one entry and one color index was assigned.
C16_Witness ==
    /\ \E id \in TuiIds : Cardinality(TasksAt(id, {"stream"})) = 2
    /\ Len(app.containers) = 1
    /\ app.color_counter = 1
    /\ app.logs # <<>>

\* C18: for a single attached container the per-container buffer is the
\* last min(k, max_logs) of the k lines delivered so far, in delivery order,
\* and so is the merged buffer while the container is selected.
C18_SingleContainerBuffer ==
    (starts = 0 /\ Len(tasks) = 1 /\ tasks[1].pc = "stream") =>
        LET name == tasks[1].name
            kept == IF delivered > app.max_logs THEN app.max_logs ELSE delivered
            expected == [j \in 1..kept |-> line_of(name, delivered - kept + j)]
        IN /\ logs_of(app.container_logs, name) = expected
           /\ is_container_selected(app, name) => app.logs = expected

\* C18 witness: the one container has delivered more than max_logs lines;
\* both buffers start with line k - max_logs + 1 and end with line k.
C18_Witness ==
    /\ starts = 0 /\ Len(tasks) = 1 /\ tasks[1].pc = "stream"
    /\ delivered > app.max_logs
    /\ is_container_selected(app, tasks[1].name)
    /\ app.logs = app.container_logs[tasks[1].name]
    /\ Len(app.logs) = app.max_logs
    /\ app.logs[1] = line_of(tasks[1].name, delivered - app.max_logs + 1)
    /\ app.logs[app.max_logs] = line_of(tasks[1].name, delivered)

\* C19: a step that leaves the selection and the list alone and delivers a
\* line (add_log) keeps the lines of the merged buffer in their order and
\* puts the new line, if a container of its name is selected, behind them,
\* cut to the last max_logs: the merged buffer is in add_log order across
\* containers.
C19_AppendOrder ==
    [][(delivered' = delivered + 1 /\ app'.containers = app.containers) =>
         \E t \in 1..Len(tasks) :
            LET line == line_of(tasks[t].name, delivered + 1)
                mine == logs_of(app'.container_logs, tasks[t].name)
            IN /\ mine # <<>> /\ mine[Len(mine)] = line
               /\ app'.logs =
                     IF is_container_selected(app, tasks[t].name)
                     THEN LastN(Append(app.logs, line), app.max_logs)
                     ELSE app.logs]_vars

\* C19 witness: a line of web and then a line of db arrived and stand in
\* that order in the merged buffer; a rebuild would put db first.
C19_Witness ==
    /\ Len(app.logs) = 2
    /\ app.logs[1].name = Str_web
    /\ app.logs[2].name = Str_db
    /\ app.logs[1].text < app.logs[2].text
    /\ update_displayed_logs(app).logs = <<app.logs[2], app.logs[1]>>

\* the color indices of the Container entries (TUI mode) and of the tasks
\* that have taken one (dump mode)
EntryColors(a) == {a.containers[k].color_index : k \in 1..Len(a.containers)}
TaskColors(ts) == {ts[t].color_index : t \in {u \in 1..Len(ts) : ts[u].pc # "color"}}

\* C17, in every state: no two attachments have the same color index, and
\* every index in use is below the counter it was taken from.
C17_ColorsDistinct ==
    /\ Cardinality(EntryColors(app)) = Len(app.containers)
    /\ \A c \in EntryColors(app) : c < app.color_counter
    /\ main = "run_logs_mode" =>
          /\ Cardinality(TaskColors(tasks)) =
                Cardinality({t \in 1..Len(tasks) : tasks[t].pc # "color"})
          /\ \A c \in TaskColors(tasks) : c < color_counter

\* C17, in every step: the counters never go back, an attachment keeps its
\* color index, and a new attachment gets the value of the counter, which
\* is then advanced.
C17_ColorsStep ==
    /\ app'.color_counter >= app.color_counter
    /\ color_counter' >= color_counter
    /\ \A j \in 1..Len(app.containers) : \A k \in 1..Len(app'.containers) :
          app.containers[j].id = app'.containers[k].id =>
              app.containers[j].color_index = app'.containers[k].color_index
    /\ \A k \in 1..Len(app'.containers) :
          app'.containers[k].id \notin EntryIds(app) =>
              /\ app'.containers[k].color_index = app.color_counter
              /\ app'.color_counter = app.color_counter + 1
    /\ main = "run_logs_mode" =>
          \A t \in 1..Len(tasks) : \A u \in 1..Len(tasks') :
              tasks[t].id = tasks'[u].id /\ tasks'[u].pc # "color" =>
                  IF tasks[t].pc = "color"
                  THEN /\ tasks'[u].color_index = color_counter
                       /\ color_counter' = color_counter + 1
                  ELSE tasks'[u].color_index = tasks[t].color_index

\* C17: color indices are unique and strictly increasing in the order they
\* are assigned, for the whole session, in TUI mode (Container entries) and
\* in dump mode (tasks); they are not reused after a removal, and the index
\* of an attachment never changes.
C17_ColorsUniqueIncreasing == []C17_ColorsDistinct /\ [][C17_ColorsStep]_vars

\* C17 witness: in TUI mode the container with index 0 was removed, and the
\* entry that was added after it has index 1.
C17_Witness ==
    /\ main = "running"
    /\ app.color_counter = 2
    /\ EntryColors(app) = {1}

\* C20 as stated: whenever run_tui has returned after the set-up of the
\* terminal, raw mode is off, the alternate screen is left and mouse capture
\* is off.
C20_TerminalRestored == main = "returned" => terminal = TerminalUntouched

\* the names of the containers of the TUI scenario
TuiNames == {strip_prefix(inspect_name(id)) : id \in TuiIds}

\* an entry with this name is in the list
HasEntry(a, name) == \E k \in 1..Len(a.containers) : a.containers[k].name = name

\* C21: add_log(name, line) appends the line to the buffer of that name
\* (evicting its oldest line over max_logs) and leaves the other buffers
\* alone; it appends the line to the merged buffer if and only if an entry
\* with that name is selected, and otherwise leaves the merged buffer alone.
C21_AddLogByName ==
    \A n \in TuiNames :
        LET line == line_of(n, delivered + 1)
            r == add_log(app, n, line)
        IN /\ logs_of(r.container_logs, n) =
                 LastN(Append(logs_of(app.container_logs, n), line), app.max_logs)
           /\ \A m \in DOMAIN app.container_logs \ {n} :
                 r.container_logs[m] = app.container_logs[m]
           /\ r.containers = app.containers
           /\ r.logs =
                 IF \E k \in 1..Len(app.containers) :
                       app.containers[k].name = n /\ app.containers[k].selected
                 THEN LastN(Append(app.logs, line), app.max_logs)
                 ELSE app.logs

\* C21 witness: the newest line arrived for a container that is in the list
\* and deselected; it is in the container's buffer and not in the merged
\* buffer, which holds a line of another container.
C21_Witness ==
    /\ delivered >= 2
    /\ app.logs # <<>>
    /\ \E n \in DOMAIN app.container_logs :
          /\ HasEntry(app, n)
          /\ ~is_container_selected(app, n)
          /\ app.container_logs[n] # <<>>
          /\ app.container_logs[n][Len(app.container_logs[n])].text = delivered
          /\ \A j \in 1..Len(app.logs) : app.logs[j].name # n

C23_ToggleSelected ==
    LET r == toggle_selected(app)
        all_selected == \A k \in 1..Len(app.containers) : app.containers[k].selected
        flags(f(_)) ==
            update_displayed_logs(
                [app EXCEPT !.containers =
                    [k \in 1..Len(app.containers) |->
                        [app.containers[k] EXCEPT !.selected = f(k)]]])
    IN /\ app.select_all_focused =>
             r = flags(LAMBDA k : ~all_selected)
       /\ RowFocused(app) =>
             r = flags(LAMBDA k : IF k = app.list_state[1] + 1
                                  THEN ~app.containers[k].selected
                                  ELSE app.containers[k].selected)

\* C23 witness: ALL is focused, one of two containers is deselected, and
\* the toggle selects both and changes the merged buffer.
C23_Witness ==
    /\ app.select_all_focused
    /\ Len(app.containers) = 2
    /\ selected_count(app) = 1
    /\ selected_count(toggle_selected(app)) = 2
    /\ toggle_selected(app).logs # app.logs

\* C26 as stated: a buffer exists in container_logs for a name if and only
\* if a Container entry with that name is in the list.
C26_BufferIffEntry ==
    \A n \in TuiNames : (n \in DOMAIN app.container_logs) <=> HasEntry(app, n)

\* C30: every line of the merged buffer is in the buffer of a container
\* that is in the list and selected.
C30_MergedLinesBuffered ==
    \A j \in 1..Len(app.logs) :
        \E k \in 1..Len(app.containers) :
            /\ app.containers[k].selected
            /\ \E i \in 1..Len(logs_of(app.container_logs, app.containers[k].name)) :
                  app.container_logs[app.containers[k].name][i] = app.logs[j]

\* C30 witness: lines were evicted and a container with buffered lines is
\* deselected; the merged buffer holds lines of the other container only.
C30_Witness ==
    /\ delivered > app.max_logs
    /\ Len(app.containers) = 2
    /\ app.logs # <<>>
    /\ \E k \in 1..2 :
          /\ ~app.containers[k].selected
          /\ logs_of(app.container_logs, app.containers[k].name) # <<>>
          /\ app.containers[3 - k].selected
          /\ app.containers[3 - k].name # app.containers[k].name

\* C28 as stated: the budget of a line is max(width - 8, 5): it is at
\* least 5 for every width of the right pane, and it is width - 8 whenever
\* width - 8 >= 5.
C28_WidthBudget ==
    frame.out # None =>
        /\ frame.out[1].max_width >= 5
        /\ frame.width - 8 >= 5 => frame.out[1].max_width = frame.width - 8

\* what the sanitizing of C29 gives: the escape sequences and the control
\* characters removed, but TAB made four spaces, LF one space and CR cr
normalized(line, cr) ==
    SelectSeq(replace(replace(replace(strip_ansi_codes(line),
                                      "TAB", <<" ", " ", " ", " ">>),
                              "LF", <<" ">>),
                      "CR", cr),
              LAMBDA c : ~is_control(c))

\* C29 as stated: the sanitized line is the line without its ANSI CSI
\* sequences and its other control characters, with every TAB replaced by
\* four spaces and every LF by one space (CR by nothing or by one space).
C29_SanitizeNormalizes ==
    frame.out # None =>
        \E cr \in {<<>>, <<" ">>} : frame.out[1].sanitized = normalized(frame.line, cr)

\* C27, a step in which the event stream yields an error item: the
\* watcher stays where it is, and the Watched set, the App State, the
\* tasks and the color counter are not changed.
C27_ErrorStep ==
    errors' # errors =>
        /\ watcher' = watcher
        /\ UNCHANGED <<app, tasks, watched, color_counter, listed, starts, delivered>>

\* C27, after an error item: the watcher still takes the start event of
\* every container that no stream follows.
C27_WatcherGoesOn ==
    (errors > 0 /\ watcher = "watching" /\ starts < MaxStarts) =>
        /\ main = "running" /\ listed = <<>> =>
              \A id \in TuiIds : ~followed(id) => ENABLED WatchEvent(StartEvent(id))
        /\ main = "run_logs_mode" =>
              \A id \in DumpIds : ~followed(id) => ENABLED DumpWatchEvent(StartEvent(id))

\* C27, after the end of the event stream in TUI mode: every task that has
\* its log stream open still receives the chunks the runtime delivers.
C27_TasksGoOn ==
    (main = "running" /\ watcher = "ended" /\ delivered < MaxChunks) =>
        \A t \in 1..Len(tasks) : tasks[t].pc = "stream" => ENABLED RecvChunk(t)

\* C27: an error item of the event stream does not stop the watcher and
\* changes neither the Watched set nor the App State nor a task; the
\* watcher handles the events after it; and in TUI mode the tasks keep
\* appending lines after the event stream has ended.
C27_EventErrorsSkipped ==
    /\ [][C27_ErrorStep]_vars
    /\ []C27_WatcherGoesOn
    /\ []C27_TasksGoOn

\* C27 witness: in TUI mode the event stream yielded an error item and a
\* start event and then ended, and the task of the started container has
\* appended a line.
C27_Witness ==
    /\ main = "running"
    /\ errors = 1
    /\ starts = 1
    /\ watcher = "ended"
    /\ \E t \in 1..Len(tasks) :
          /\ tasks[t].id # "c1"
          /\ tasks[t].pc = "stream"
          /\ logs_of(app.container_logs, tasks[t].name) # <<>>

\* C24 as stated: the key i opens the overlay only for a focused row: while
\* the ALL row is focused, get_container_info is not called and no text is
\* about to be stored.
C24_InfoNeedsRowFocus ==
    ui.pc \in {"inspect", "lock_store", "store"} => ~app.select_all_focused

\* C25: the lock of the App State is held only between a grant and the
\* drop of the guard: its holder is at "draw", "key" or "store" (UI loop) or
\* at "add", "log" or "remove" (log task), never at a call of the runtime
\* (inspect, stream.next(), get_container_info) or at a request; and who is
\* at one of these positions holds it.
C25_NoLockAcrossRuntimeCall ==
    /\ lock = Some(UiHolder) <=> ui.pc \in {"draw", "key", "store"}
    /\ \A t \in 1..Len(tasks) :
          lock = Some(TaskHolder(t)) <=> tasks[t].pc \in {"add", "log", "remove"}
    /\ lock # None =>
          lock[1] \in {UiHolder} \cup {TaskHolder(t) : t \in 1..Len(tasks)}

\* C25 witness: the UI loop awaits get_container_info without the lock
\* while a log task holds it for add_log.
C25_Witness ==
    /\ ui.pc = "inspect"
    /\ \E t \in 1..Len(tasks) : lock = Some(TaskHolder(t)) /\ tasks[t].pc = "log"

\* C31 as stated: a step of remove_container that takes an entry out of the
\* list leaves the buffered lines of every entry that remains unchanged,
\* also when a remaining entry has the name of the removed one.
C31_RemoveKeepsOtherBuffers ==
    [][Len(app'.containers) < Len(app.containers) =>
          \A k \in 1..Len(app'.containers) :
              logs_of(app'.container_logs, app'.containers[k].name)
                  = logs_of(app.container_logs, app'.containers[k].name)]_vars

\* C32 as stated, for one step of the event loop: in dump mode with follow,
\* when the start event of a container whose name matches the filter is
\* processed, a task for its id is there afterwards that streams the
\* container or is on its way to (it has not seen its stream end); only a
\* start event spawns a task, so otherwise none ever streams the container.
C32_StartEventAnswered ==
    [][\A id \in DumpIds :
          (/\ main = "run_logs_mode"
           /\ regex_find(DumpRegex, strip_prefix(inspect_name(id)))
           /\ ~followed(id)
           /\ DumpWatchEvent(StartEvent(id)))
          => \E t \in 1..Len(tasks') :
                /\ tasks'[t].id = id
                /\ tasks'[t].pc \in {"color", "inspect", "stream"}
                /\ ~tasks'[t].eof]_vars

\* the locks that the task at index t holds, and the one it requests
HeldByTask(t) ==
    {l \in {"app", "watched", "counter"} :
        \/ l = "app" /\ lock = Some(TaskHolder(t))
        \/ l = "watched" /\ logs_mode.watched = Some(TaskHolder(t))
        \/ l = "counter" /\ logs_mode.counter = Some(TaskHolder(t))}

RequestedByTask(t) ==
    IF main = "running"
    THEN IF tasks[t].pc \in {"lock_add", "lock_log", "lock_remove"} THEN {"app"} ELSE {}
    ELSE IF tasks[t].pc = "lock_color" THEN {"counter"}
    ELSE IF tasks[t].pc = "lock_remove" THEN {"watched"} ELSE {}

\* the same for the UI loop and the loop of run_logs_mode
HeldByLoop ==
    {l \in {"app", "watched", "counter"} :
        \/ l = "app" /\ lock = Some(UiHolder)
        \/ l = "watched" /\ logs_mode.watched = Some(MainHolder)
        \/ l = "counter" /\ logs_mode.counter = Some(MainHolder)}

RequestedByLoop ==
    IF main = "running"
    THEN IF ui.pc \in {"lock_draw", "lock_key", "lock_store"} THEN {"app"} ELSE {}
    ELSE IF watcher \in {"lock_listed", "lock_event"} THEN {"watched"} ELSE {}

\* C33, first half: who requests a lock holds none, and nobody holds two.
C33_NoWaitWhileHolding ==
    /\ \A t \in 1..Len(tasks) :
          /\ RequestedByTask(t) # {} => HeldByTask(t) = {}
          /\ Cardinality(HeldByTask(t)) <= 1
    /\ RequestedByLoop # {} => HeldByLoop = {}
    /\ Cardinality(HeldByLoop) <= 1

\* C33, second half: under fair scheduling every request is granted.
C33_RequestsGranted ==
    /\ \A t \in 1..MaxTasks :
          (t \in 1..Len(tasks) /\ RequestedByTask(t) # {})
              ~> (t \in 1..Len(tasks) /\ HeldByTask(t) # {})
    /\ (RequestedByLoop # {}) ~> (HeldByLoop # {})

\* C33: the locking is deadlock-free: no task, and neither loop, waits for
\* the App State mutex, the Watched-set mutex or the color-counter mutex
\* while it holds one of them, and under fair scheduling every lock request
\* of a log task, of the event loop and of the UI loop is granted.
C33_DeadlockFree == []C33_NoWaitWhileHolding /\ C33_RequestsGranted

\* C33 witness: in dump mode the loop requests the Watched set for a start
\* event while the task of the listed container holds it to remove its id.
C33_Witness ==
    /\ main = "run_logs_mode"
    /\ watcher = "lock_event"
    /\ \E t \in 1..Len(tasks) :
          logs_mode.watched = Some(TaskHolder(t)) /\ tasks[t].pc = "remove"

====
